---- MODULE Spec2Model ----
(***************************************************************************)
(* Model of the ui-canvas framework tooling: the component registry        *)
(* (scripts/registry-manager.js), the architecture validator               *)
(* (scripts/validate-architecture.js), the CSS token validator             *)
(* (scripts/css-token-validator.js) and the commands of bin/cli.js.        *)
(***************************************************************************)
EXTENDS Integers, Sequences, FiniteSets, TLC

VARIABLES
  files,      \* the project tree: source path -> file state
  clock,      \* wall clock (new Date()): one tick per edit of the tree
  disk,       \* content of components/manifest.json
  writes,     \* fs.writeFileSync calls on the manifest file by the last command
  pc,         \* position of the running registry command
  manifest,   \* this.manifest of the RegistryManager of that command
  pending,    \* files the scan loop has not processed yet
  tally,      \* the scan loop's counters scanned / added / updated
  result,     \* what the command that has just finished returned or threw
  prevTree,   \* the tree as the last completed scan saw it
  docs,       \* files written by generateDocs
  archTree,   \* the tree the architecture validator runs in: path -> text
  mainCss,    \* whether styles/main.css exists
  violations, \* this.violations of the ArchitectureValidator
  archPc,     \* position of validate()
  archPassed, \* what validate() returned
  tokTree,    \* the tree the token validator runs in: path -> file
  tokens,     \* this.tokens of the CSSTokenValidator: name -> usageCount
  tokViolations, \* this.violations of the CSSTokenValidator
  tokPc,      \* position of validateTokens()
  tokResult,  \* what `ui-canvas tokens` returned and how its process ended
  suitePc,    \* position of `ui-canvas validate-all`
  allPassed,  \* its flag allPassed
  stagesRun,  \* the stages it has run, with what each came to
  suiteEnd,   \* how its process ended
  procs,      \* registry invocations that run at the same time: id -> state
  lastWriter, \* the invocation that wrote the manifest file last
  element,    \* one UICanvasComponent element: its class, _initialized, _props
  calls,      \* the callbacks made on it and the methods they invoked, in order
  promptFiles, \* the AI configuration files of the project: name -> content
  original,   \* what CLAUDE.md held before the first `setup-prompts`
  setups,     \* the modes `setup-prompts` has been run with, in order
  baselines,  \* tests/visual/snapshots/<name>.png per snapshot name
  diffs,      \* tests/visual/snapshots/<name>-diff.png per snapshot name
  temps,      \* tests/visual/temp/<name>-current.png per snapshot name
  visPc,      \* the test cases testComponent has still to compare
  visUpdate,  \* options.updateSnapshots of the running testComponent
  visResults, \* its counters passed / failed / updated / errors
  visLast,    \* the last compareSnapshot call: its inputs and what it returned
  visRuns     \* the number of testComponent runs started

registryVars == <<files, clock, disk, writes, pc, manifest, pending, tally,
                  result, prevTree, docs>>

archVars == <<archTree, mainCss, violations, archPc, archPassed>>

tokenVars == <<tokTree, tokens, tokViolations, tokPc, tokResult>>

suiteVars == <<suitePc, allPassed, stagesRun, suiteEnd>>

raceVars == <<procs, lastWriter>>

elementVars == <<element, calls>>

promptVars == <<promptFiles, original, setups>>

visualVars == <<baselines, diffs, temps, visPc, visUpdate, visResults, visLast, visRuns>>

vars == <<registryVars, archVars, tokenVars, suiteVars, raceVars, elementVars, promptVars,
                 visualVars>>

(***************************************************************************)
(* Bounds                                                                  *)
(***************************************************************************)
MaxClock == 1

\* callbacks made on one element
MaxCallbacks == 4

\* invocations of `setup-prompts`
MaxSetups == 2

\* runs of testComponent
MaxRuns == 1

(***************************************************************************)
(* The project tree                                                        *)
(***************************************************************************)
ComponentsCard == [dir |-> "components", base |-> "x-card"]
PagesCard      == [dir |-> "pages",      base |-> "x-card"]
WorkflowsFlow  == [dir |-> "workflows",  base |-> "buy-flow"]

\* the order in which the three globs list the files of a tree
PathOrder == <<ComponentsCard, PagesCard, WorkflowsFlow>>

Paths == {PathOrder[i] : i \in DOMAIN PathOrder}

\* file texts: what follows `static get observedAttributes() { return [`
Contents == {"title", "titleSize", "plain"}

NoFile == [present |-> FALSE, readable |-> FALSE, content |-> "plain", mtime |-> 0]

Present(fs, p) == fs[p].present

Glob(dir, fs) == SelectSeq(PathOrder, LAMBDA p : p.dir = dir /\ Present(fs, p))

(***************************************************************************)
(* Metadata extraction                                                     *)
(***************************************************************************)
\* observedMatch[1].split(','): the pieces between the brackets, or no match
ObservedMatch(content) ==
  CASE content = "title"     -> [matched |-> TRUE,  pieces |-> <<"'title'">>]
    [] content = "titleSize" -> [matched |-> TRUE,  pieces |-> <<"'title'", " \"size\"", " ">>]
    [] content = "plain"     -> [matched |-> FALSE, pieces |-> <<>>]

\* prop.trim().replace(/['"]/g, '')
TrimUnquote(piece) ==
  CASE piece = "'title'"    -> "title"
    [] piece = " \"size\""  -> "size"
    [] piece = " "          -> ""

ExtractProps(content) ==
  LET m == ObservedMatch(content) IN
  IF m.matched
    THEN SelectSeq([i \in DOMAIN m.pieces |-> TrimUnquote(m.pieces[i])],
                   LAMBDA prop : prop /= "")
    ELSE <<>>

\* stats.size of a file with that text
FileSize(content) ==
  CASE content = "title"     -> 120
    [] content = "titleSize" -> 131
    [] content = "plain"     -> 64

ToISOString(t) == [iso |-> t]

extractMetadata(content) ==
  [props        |-> ExtractProps(content),
   description  |-> "",
   version      |-> "1.0.0",
   dependencies |-> <<>>,
   examples     |-> <<>>,
   bemClasses   |-> <<>>]

Basename(p) == p.base

\* a scanner that files everything under the component layer
LayerOfPathAlwaysComponent(p) == "component"

\* analyzeComponent, lines 123-125
LayerOfPath(p) ==
  IF p.dir = "workflows" THEN "workflow"
  ELSE IF p.dir = "pages" THEN "page"
  ELSE "component"

\* a scanner that drops files declaring no observedAttributes
analyzeComponentSkipsBare(p, fs) ==
  IF ~fs[p].readable \/ ~ObservedMatch(fs[p].content).matched
    THEN [ok |-> FALSE]
    ELSE [ok |-> TRUE,
          name |-> Basename(p),
          metadata |->
            [name         |-> Basename(p),
             path         |-> p,
             layer        |-> LayerOfPath(p),
             props        |-> ExtractProps(fs[p].content),
             description  |-> "",
             version      |-> "1.0.0",
             dependencies |-> <<>>,
             examples     |-> <<>>,
             bemClasses   |-> <<>>,
             lastModified |-> ToISOString(fs[p].mtime),
             fileSize     |-> FileSize(fs[p].content)]]

\* a scanner whose reads never fail
analyzeComponentReadsLocked(p, fs) ==
  [ok |-> TRUE,
   name |-> Basename(p),
   metadata |->
     [name         |-> Basename(p),
      path         |-> p,
      layer        |-> LayerOfPath(p),
      props        |-> ExtractProps(fs[p].content),
      description  |-> "",
      version      |-> "1.0.0",
      dependencies |-> <<>>,
      examples     |-> <<>>,
      bemClasses   |-> <<>>,
      lastModified |-> ToISOString(fs[p].mtime),
      fileSize     |-> FileSize(fs[p].content)]]

analyzeComponent(p, fs) ==
  IF ~fs[p].readable
    THEN [ok |-> FALSE]
    ELSE LET md == extractMetadata(fs[p].content) IN
         [ok |-> TRUE,
          name |-> Basename(p),
          metadata |->
            [name         |-> Basename(p),
             path         |-> p,
             layer        |-> LayerOfPath(p),
             props        |-> md.props,
             description  |-> md.description,
             version      |-> md.version,
             dependencies |-> md.dependencies,
             examples     |-> md.examples,
             bemClasses   |-> md.bemClasses,
             lastModified |-> ToISOString(fs[p].mtime),
             fileSize     |-> FileSize(fs[p].content)]]

(***************************************************************************)
(* JSON text, as the tree of values JSON.stringify writes and JSON.parse   *)
(* reads                                                                   *)
(***************************************************************************)
JStr(s) == [t |-> "string", v |-> s]
JNum(n) == [t |-> "number", v |-> n]
JArr(a) == [t |-> "array",  v |-> a]
JObj(f) == [t |-> "object", v |-> f]

StringifyStrings(a) == JArr([i \in DOMAIN a |-> JStr(a[i])])

\* JSON.stringify of one component record
StringifyRecord(r) ==
  JObj([name         |-> JStr(r.name),
        path         |-> JStr(r.path),
        layer        |-> JStr(r.layer),
        props        |-> StringifyStrings(r.props),
        description  |-> JStr(r.description),
        version      |-> JStr(r.version),
        dependencies |-> StringifyStrings(r.dependencies),
        examples     |-> StringifyStrings(r.examples),
        bemClasses   |-> StringifyStrings(r.bemClasses),
        lastModified |-> JStr(r.lastModified),
        fileSize     |-> JNum(r.fileSize)])

StringifyLayerEntry(e) ==
  JObj([path         |-> JStr(e.path),
        props        |-> StringifyStrings(e.props),
        lastModified |-> JStr(e.lastModified)])

StringifyLayer(index) == JObj([n \in DOMAIN index |-> StringifyLayerEntry(index[n])])

StringifyMember(m, k) ==
  CASE k = "components" -> JObj([n \in DOMAIN m[k] |-> StringifyRecord(m[k][n])])
    [] k = "layers"     -> JObj([l \in DOMAIN m[k] |-> StringifyLayer(m[k][l])])
    [] k = "stats"      -> JObj([totalComponents |-> JNum(m[k].totalComponents),
                                 lastUpdated     |-> JStr(m[k].lastUpdated)])
    [] OTHER            -> JStr(m[k])

\* a save that rebuilds the document from the keys it knows
StringifyKnownKeys(m) ==
  JObj([k \in DOMAIN m \cap {"version", "framework", "generated", "components",
                             "layers", "stats"} |-> StringifyMember(m, k)])

\* JSON.stringify(this.manifest, null, 2): every own key of the object
Stringify(m) == JObj([k \in DOMAIN m |-> StringifyMember(m, k)])

RECURSIVE ParseValue(_)
ParseValue(j) ==
  CASE j.t = "string" -> j.v
    [] j.t = "number" -> j.v
    [] j.t = "array"  -> [i \in DOMAIN j.v |-> ParseValue(j.v[i])]
    [] j.t = "object" -> [k \in DOMAIN j.v |-> ParseValue(j.v[k])]

(***************************************************************************)
(* The manifest file and the Registry Store                                *)
(***************************************************************************)
Absent       == [kind |-> "absent"]
Garbage      == [kind |-> "garbage"]
JsonFile(j)  == [kind |-> "json", text |-> j]

EmptyMap == <<>>

\* an assignment that replaces the map by the one entry
PutAlone(map, key, value) == [k \in {key} |-> value]

Put(map, key, value) ==
  [k \in DOMAIN map \cup {key} |-> IF k = key THEN value ELSE map[k]]

FreshManifest(now) ==
  [version    |-> "1.0.0",
   framework  |-> "@ui-canvas/framework",
   generated  |-> ToISOString(now),
   components |-> EmptyMap,
   layers     |-> [component |-> EmptyMap, page |-> EmptyMap, workflow |-> EmptyMap],
   stats      |-> [totalComponents |-> 0, lastUpdated |-> ToISOString(now)]]

\* a manifest file written by hand or by a newer version: an unknown
\* top-level key and a component count nobody recomputed
HandWritten ==
  JsonFile(JObj(
    [version    |-> JStr("1.0.0"),
     framework  |-> JStr("@ui-canvas/framework"),
     generated  |-> JStr(ToISOString(0)),
     components |-> JObj(EmptyMap),
     layers     |-> JObj([component |-> JObj(EmptyMap), page |-> JObj(EmptyMap),
                          workflow |-> JObj(EmptyMap)]),
     stats      |-> JObj([totalComponents |-> JNum(7),
                          lastUpdated |-> JStr(ToISOString(0))]),
     owner      |-> JStr("design-team")]))

\* a load that never reads the file
loadManifestAfresh(d, now) == [ok |-> TRUE, manifest |-> FreshManifest(now)]

\* a load that swallows the parse error and starts afresh
loadManifestLenient(d, now) ==
  IF d.kind = "json" THEN [ok |-> TRUE, manifest |-> ParseValue(d.text)]
  ELSE [ok |-> TRUE, manifest |-> FreshManifest(now)]

\* loadManifest: [ok, manifest], ok = FALSE when it throws
loadManifest(d, now) ==
  IF d.kind = "absent" THEN [ok |-> TRUE, manifest |-> FreshManifest(now)]
  ELSE IF d.kind = "json" THEN [ok |-> TRUE, manifest |-> ParseValue(d.text)]
  ELSE [ok |-> FALSE]

\* a save that refreshes the timestamp and forgets the count
UpdateStatsStale(m, now) ==
  [m EXCEPT !.stats = [@ EXCEPT !.lastUpdated = ToISOString(now)]]

\* saveManifest, lines 48-49: the stats it recomputes
UpdateStats(m, now) ==
  [m EXCEPT !.stats = [@ EXCEPT !.totalComponents = Cardinality(DOMAIN m.components),
                                !.lastUpdated = ToISOString(now)]]

\* a save that writes the document as it was before the stats were recomputed
saveManifestStaleStats(m, now) == JsonFile(Stringify(m))

\* saveManifest, line 58: the text it writes
saveManifest(m, now) == JsonFile(Stringify(UpdateStats(m, now)))

(***************************************************************************)
(* Scanner                                                                 *)
(***************************************************************************)
LayerEntry(md) == [path |-> md.path, props |-> md.props, lastModified |-> md.lastModified]

\* line 85: !existing
IsAdded(components, name) == name \notin DOMAIN components

\* a scanner that keeps the record a name already has
IsUpdatedNever(components, name, metadata) == FALSE

\* line 88: an existing record whose JSON text differs from the new one's
IsUpdated(components, name, metadata) ==
  /\ name \in DOMAIN components
  /\ StringifyRecord(components[name]) /= StringifyRecord(metadata)

\* one turn of the loop of scanComponents, lines 79-101
ReconcileFile(m, t, p, fs) ==
  LET r == analyzeComponent(p, fs) IN
  IF ~r.ok
    THEN [manifest |-> m, tally |-> [t EXCEPT !.scanned = @ + 1]]
    ELSE
      LET name     == r.name
          metadata == r.metadata
          added    == IsAdded(m.components, name)
          updated  == ~added /\ IsUpdated(m.components, name, metadata)
          comps    == IF added \/ updated
                        THEN Put(m.components, name, metadata)
                        ELSE m.components
          layers   == [m.layers EXCEPT
                         ![metadata.layer] = Put(@, name, LayerEntry(metadata))]
      IN [manifest |-> [m EXCEPT !.components = comps, !.layers = layers],
          tally    |-> [scanned |-> t.scanned + 1,
                        added   |-> t.added + (IF added THEN 1 ELSE 0),
                        updated |-> t.updated + (IF updated THEN 1 ELSE 0)]]

(***************************************************************************)
(* Edits of the project tree between commands                              *)
(***************************************************************************)
Idle == pc = "idle"

NoResult == [cmd |-> "none", status |-> "ok"]

\* the process of the last command is gone: its object and its output with it
Forget ==
  /\ manifest' = EmptyMap
  /\ writes' = 0
  /\ result' = NoResult

WriteFile(p, content, limit) ==
  /\ Idle
  /\ clock < limit
  /\ files' = [files EXCEPT ![p] =
                 [present  |-> TRUE,
                  readable |-> IF files[p].present THEN files[p].readable ELSE TRUE,
                  content  |-> content,
                  mtime    |-> files[p].mtime + 1]]
  /\ clock' = clock + 1
  /\ Forget
  /\ UNCHANGED <<disk, pc, pending, tally, prevTree, docs, archVars, tokenVars, suiteVars, raceVars, elementVars, promptVars,
                 visualVars>>

RemoveFile(p, limit) ==
  /\ Idle
  /\ clock < limit
  /\ files[p].present
  /\ files' = [files EXCEPT ![p] = NoFile]
  /\ clock' = clock + 1
  /\ Forget
  /\ UNCHANGED <<disk, pc, pending, tally, prevTree, docs, archVars, tokenVars, suiteVars, raceVars, elementVars, promptVars,
                 visualVars>>

\* chmod: the file stays in the tree and readFileSync throws on it
Chmod(p, limit) ==
  /\ Idle
  /\ clock < limit
  /\ files[p].present
  /\ files' = [files EXCEPT ![p].readable = ~@]
  /\ clock' = clock + 1
  /\ Forget
  /\ UNCHANGED <<disk, pc, pending, tally, prevTree, docs, archVars, tokenVars, suiteVars, raceVars, elementVars, promptVars,
                 visualVars>>

(***************************************************************************)
(* registry scan                                                           *)
(***************************************************************************)
NoTally == [scanned |-> 0, added |-> 0, updated |-> 0]

Threw(cmd) == [cmd |-> cmd, status |-> "error"]

\* components as a load of the manifest file yields them
ComponentsOf(d) == IF d.kind = "json" THEN ParseValue(d.text).components ELSE EmptyMap

\* scanComponents, lines 64-76: load, then the three globs
ScanStart ==
  /\ Idle
  /\ LET l == loadManifest(disk, clock) IN
       IF l.ok
         THEN /\ manifest' = l.manifest
              /\ pending' = Glob("components", files) \o Glob("pages", files)
                              \o Glob("workflows", files)
              /\ tally' = NoTally
              /\ pc' = "scan"
              /\ writes' = 0
              /\ result' = NoResult
         ELSE /\ result' = Threw("scan")
              /\ writes' = 0
              /\ UNCHANGED <<manifest, pending, tally, pc>>
  /\ UNCHANGED <<files, clock, disk, prevTree, docs, archVars, tokenVars, suiteVars, raceVars, elementVars, promptVars,
                 visualVars>>

\* the process is terminated in the middle of the loop of scanComponents
ScanInterrupt ==
  /\ pc = "scan"
  /\ result' = [cmd |-> "scan", status |-> "killed", scanned |-> tally.scanned,
                left |-> Len(pending)]
  /\ pc' = "idle"
  /\ manifest' = EmptyMap
  /\ pending' = <<>>
  /\ tally' = NoTally
  /\ UNCHANGED <<files, clock, disk, writes, prevTree, docs, archVars, tokenVars, suiteVars, raceVars, elementVars, promptVars,
                 visualVars>>

\* a loop that saves the manifest after every file
ScanFileCheckpointing ==
  /\ pc = "scan"
  /\ pending /= <<>>
  /\ LET r == ReconcileFile(manifest, tally, Head(pending), files) IN
       /\ manifest' = r.manifest
       /\ tally' = r.tally
       /\ disk' = saveManifest(r.manifest, clock)
  /\ pending' = Tail(pending)
  /\ UNCHANGED <<files, clock, writes, pc, result, prevTree, docs, archVars, tokenVars, suiteVars, raceVars, elementVars, promptVars,
                 visualVars>>

\* scanComponents, lines 79-101: one file
ScanFile ==
  /\ pc = "scan"
  /\ pending /= <<>>
  /\ LET r == ReconcileFile(manifest, tally, Head(pending), files) IN
       /\ manifest' = r.manifest
       /\ tally' = r.tally
  /\ pending' = Tail(pending)
  /\ UNCHANGED <<files, clock, disk, writes, pc, result, prevTree, docs, archVars, tokenVars, suiteVars, raceVars, elementVars, promptVars,
                 visualVars>>

\* scanComponents, lines 103-110: save and report
ScanSave ==
  /\ pc = "scan"
  /\ pending = <<>>
  /\ manifest' = UpdateStats(manifest, clock)
  /\ disk' = saveManifest(manifest, clock)
  /\ writes' = writes + 1
  /\ result' = [cmd |-> "scan", status |-> "ok",
                scanned |-> tally.scanned, added |-> tally.added,
                updated |-> tally.updated,
                loaded |-> ComponentsOf(disk), treeBefore |-> prevTree]
  /\ prevTree' = [scanned |-> TRUE, files |-> files]
  /\ pc' = "idle"
  /\ UNCHANGED <<files, clock, pending, tally, docs, archVars, tokenVars, suiteVars, raceVars, elementVars, promptVars,
                 visualVars>>

(***************************************************************************)
(* registry init                                                           *)
(***************************************************************************)
RegistryInit ==
  /\ Idle
  /\ LET l == loadManifest(disk, clock) IN
       IF l.ok
         THEN /\ manifest' = UpdateStats(l.manifest, clock)
              /\ disk' = saveManifest(l.manifest, clock)
              /\ writes' = 1
              /\ result' = [cmd |-> "init", status |-> "ok"]
         ELSE /\ result' = Threw("init")
              /\ writes' = 0
              /\ UNCHANGED <<manifest, disk>>
  /\ UNCHANGED <<files, clock, pc, pending, tally, prevTree, docs, archVars, tokenVars, suiteVars, raceVars, elementVars, promptVars,
                 visualVars>>

(***************************************************************************)
(* registry list / info / docs / validate                                  *)
(***************************************************************************)
\* the options `registry list` is run with
ListOptions == {[layer |-> "", search |-> ""],
                [layer |-> "page", search |-> ""],
                [layer |-> "", search |-> "card"]}

\* the names `registry info` is asked for
InfoNames == {"x-card", "no-such"}

\* text.toLowerCase().includes(term)
Includes(text, term) == term = "" \/ (term = "card" /\ text = "x-card")

\* listComponents, lines 200-216
listComponents(m, options) ==
  {c \in {m.components[n] : n \in DOMAIN m.components} :
     /\ options.layer /= "" => c.layer = options.layer
     /\ options.search /= "" =>
          Includes(c.name, options.search) \/ Includes(c.description, options.search)}

\* getComponent, line 221
getComponent(m, name) ==
  IF name \in DOMAIN m.components
    THEN [found |-> TRUE, component |-> m.components[name]]
    ELSE [found |-> FALSE]

\* generateDocs: index.html and `${component.name}.html` per record
DocFiles(m) == {"index"} \cup {m.components[n].name : n \in DOMAIN m.components}

\* name.includes('-')
HasHyphen(name) == name \in {"x-card", "buy-flow", "no-such"}

\* validateRegistry, lines 463-464: the layer the path prefix implies
expectedLayer(p) ==
  IF p.dir = "pages" THEN "page"
  ELSE IF p.dir = "workflows" THEN "workflow"
  ELSE "component"

\* a validator that never looks at the file system
ComponentIssuesOfRecord(name, component, fs) ==
  (IF ~HasHyphen(name)
     THEN {[issue |-> "Component name must contain hyphen"]} ELSE {})
  \cup
  (IF component.layer /= expectedLayer(component.path)
     THEN {[issue |-> "Layer mismatch", expected |-> expectedLayer(component.path),
            got |-> component.layer]} ELSE {})

\* validateRegistry, lines 449-467: the issues of one record
ComponentIssues(name, component, fs) ==
  (IF ~Present(fs, component.path)
     THEN {[issue |-> "File not found", path |-> component.path]} ELSE {})
  \cup
  (IF ~HasHyphen(name)
     THEN {[issue |-> "Component name must contain hyphen"]} ELSE {})
  \cup
  (IF component.layer /= expectedLayer(component.path)
     THEN {[issue |-> "Layer mismatch", expected |-> expectedLayer(component.path),
            got |-> component.layer]} ELSE {})

\* validateRegistry, lines 445-488
validateRegistry(m, fs) ==
  LET bad == {n \in DOMAIN m.components : ComponentIssues(n, m.components[n], fs) /= {}} IN
  [valid  |-> Cardinality(DOMAIN m.components \ bad),
   issues |-> {[component |-> n, issues |-> ComponentIssues(n, m.components[n], fs)] : n \in bad}]

\* what the running command's loadManifest yields
Loaded == loadManifest(disk, clock)

\* a command that saves the manifest it has loaded
ReadOnlySaving(cmd, outcome, written) ==
  /\ Idle
  /\ IF Loaded.ok
       THEN /\ manifest' = Loaded.manifest
            /\ result' = [cmd |-> cmd, status |-> "ok", value |-> outcome]
            /\ docs' = docs \cup written
            /\ disk' = saveManifest(Loaded.manifest, clock)
       ELSE /\ result' = Threw(cmd)
            /\ UNCHANGED <<manifest, docs, disk>>
  /\ writes' = 0
  /\ UNCHANGED <<files, clock, pc, pending, tally, prevTree, archVars, tokenVars, suiteVars, raceVars, elementVars, promptVars,
                 visualVars>>

\* a command that loads the manifest and only reads it
ReadOnly(cmd, outcome, written) ==
  /\ Idle
  /\ IF Loaded.ok
       THEN /\ manifest' = Loaded.manifest
            /\ result' = [cmd |-> cmd, status |-> "ok", value |-> outcome]
            /\ docs' = docs \cup written
       ELSE /\ result' = Threw(cmd)
            /\ UNCHANGED <<manifest, docs>>
  /\ writes' = 0
  /\ UNCHANGED <<files, clock, disk, pc, pending, tally, prevTree, archVars, tokenVars, suiteVars, raceVars, elementVars, promptVars,
                 visualVars>>

RegistryList(options) ==
  ReadOnly("list", listComponents(Loaded.manifest, options), {})

RegistryInfo(name) ==
  ReadOnly("info", getComponent(Loaded.manifest, name), {})

RegistryDocs ==
  ReadOnly("docs", [generated |-> Cardinality(DOMAIN Loaded.manifest.components)],
           DocFiles(Loaded.manifest))

RegistryValidate ==
  ReadOnly("validate", validateRegistry(Loaded.manifest, files), {})

(***************************************************************************)
(* Architecture validator (scripts/validate-architecture.js)               *)
(***************************************************************************)
ComponentDirect == [dir |-> "components", sub |-> "",         base |-> "x-card",  ext |-> "js"]
ComponentNested == [dir |-> "components", sub |-> "ui",       base |-> "y-card",  ext |-> "js"]
PageHtml        == [dir |-> "pages",      sub |-> "home",     base |-> "index",   ext |-> "html"]
WorkflowHtml    == [dir |-> "workflows",  sub |-> "checkout", base |-> "flow",    ext |-> "html"]

\* the order in which find lists the files
ArchOrder == <<ComponentDirect, ComponentNested, PageHtml, WorkflowHtml>>

ArchPaths == {ArchOrder[i] : i \in DOMAIN ArchOrder}

\* file texts: nothing notable, an import of ../pages/x.js, an import of
\* ../workflows/x.js, a style="color:red" attribute, a <div class="card-compact">,
\* a `.card-compact {` rule, imports of both ../pages/x.js and ../workflows/x.js,
\* a style="color:red" attribute next to an import of ../pages/x.js
ArchTexts == {"clean", "refPages", "refWorkflows", "inlineStyle", "rawCard", "dupCompact",
              "refBoth", "inlineRefPages"}

NoArchFile == [present |-> FALSE, text |-> "clean"]

\* content.includes(needle)
Contains(text, needle) ==
  \/ text \in {"refPages", "refBoth", "inlineRefPages"} /\ needle = "../pages/"
  \/ text \in {"refWorkflows", "refBoth"} /\ needle = "../workflows/"

\* find . -path "./<pattern>" -type f: the pattern is an fnmatch pattern in
\* which * also matches '/', and braces are literal characters
FindMatches(pattern, p) ==
  CASE pattern = "components/**/*.js" ->
         p.dir = "components" /\ p.sub /= "" /\ p.ext = "js"
    [] pattern = "{pages,workflows}/**/*.html" ->
         p.dir = "{pages,workflows}" /\ p.sub /= "" /\ p.ext = "html"
    [] pattern = "**/*.{css,js,html}" ->
         p.ext = "{css,js,html}"

\* f.includes(part), for the parts the validator filters on
PathIncludes(p, part) == p.dir = part \/ p.sub = part \/ p.base = part

findFiles(pattern, tree) ==
  SelectSeq(ArchOrder, LAMBDA p : /\ tree[p].present
                                  /\ FindMatches(pattern, p)
                                  /\ ~PathIncludes(p, "node_modules"))

Violation(type, file, description) ==
  [type |-> type, file |-> file, description |-> description]

\* checkForInlineCSS, lines 254-259: the patterns content.match finds
InlinePatterns == <<"style attribute", "<style> tag", "element.style usage",
                    "innerHTML with style">>

InlineMatch(text, name) ==
  text \in {"inlineStyle", "inlineRefPages"} /\ name = "style attribute"

checkForInlineCSS(file, text) ==
  LET found == SelectSeq(InlinePatterns, LAMBDA name : InlineMatch(text, name)) IN
  IF found /= <<>>
    THEN <<Violation("INLINE_CSS_DETECTED", file, found)>>
    ELSE <<>>

\* checkForCSSduplication, lines 288-293
ForbiddenPatterns == <<".card-compact styles", ".card-embedded styles",
                       ".card-standard styles", "card background styles">>

\* where in the text the pattern matches: [from, to)
PatternHits(text, name) ==
  IF text = "dupCompact" /\ name = ".card-compact styles"
    THEN {[from |-> 10, to |-> 25]}
    ELSE {}

\* pattern.test(content) on a /g regular expression: the search starts at
\* lastIndex, which a hit moves behind the match and a miss resets
RegExpTest(text, name, lastIndex) ==
  LET hits == {h \in PatternHits(text, name) : h.from >= lastIndex} IN
  IF hits = {}
    THEN [found |-> FALSE, lastIndex |-> 0]
    ELSE LET h == CHOOSE x \in hits : \A y \in hits : x.from <= y.from IN
         [found |-> TRUE, lastIndex |-> h.to]

RECURSIVE CheckDuplication(_, _, _, _, _)
\* lines 295-307: file i, pattern k, with the patterns' lastIndex so far
CheckDuplication(fs, tree, i, k, lastIndex) ==
  IF i > Len(fs) THEN <<>>
  ELSE IF k > Len(ForbiddenPatterns) THEN CheckDuplication(fs, tree, i + 1, 1, lastIndex)
  ELSE
    LET name == ForbiddenPatterns[k]
        t    == RegExpTest(tree[fs[i]].text, name, lastIndex[k])
        rest == CheckDuplication(fs, tree, i, k + 1, [lastIndex EXCEPT ![k] = t.lastIndex])
    IN IF t.found THEN <<Violation("CSS_DUPLICATION", fs[i], name)>> \o rest ELSE rest

checkForCSSduplication(tree) ==
  LET kept == SelectSeq(findFiles("**/*.{css,js,html}", tree),
                        LAMBDA f : /\ ~PathIncludes(f, "main.css")
                                   /\ ~PathIncludes(f, "node_modules")
                                   /\ ~PathIncludes(f, ".git"))
  IN CheckDuplication(kept, tree, 1, 1, [k \in DOMAIN ForbiddenPatterns |-> 0])

RECURSIVE Flatten(_)
Flatten(lists) == IF lists = <<>> THEN <<>> ELSE Head(lists) \o Flatten(Tail(lists))

\* checks 2 and 3 of validateCssSingleSourceOfTruth, lines 236-243
CssChecks(tree) ==
  LET componentFiles == findFiles("components/**/*.js", tree) IN
         Flatten([i \in DOMAIN componentFiles |->
                    checkForInlineCSS(componentFiles[i], tree[componentFiles[i]].text)])
           \o checkForCSSduplication(tree)

\* a validator that goes on after recording MISSING_MAIN_CSS
validateCssWithoutReturn(tree, hasMainCss) ==
  IF ~hasMainCss
    THEN <<Violation("MISSING_MAIN_CSS", "styles/main.css", <<>>)>> \o CssChecks(tree)
    ELSE CssChecks(tree)

\* validateCssSingleSourceOfTruth, lines 220-246
validateCssSingleSourceOfTruth(tree, hasMainCss) ==
  IF ~hasMainCss
    THEN <<Violation("MISSING_MAIN_CSS", "styles/main.css", <<>>)>>
    ELSE CssChecks(tree)

\* checkForRawHTML, lines 325-341
RawPatterns == <<"Raw card HTML", "Raw card-compact HTML", "Raw card-embedded HTML",
                 "Raw card-standard HTML">>

RawMatch(text, name) == text = "rawCard" /\ name = "Raw card-compact HTML"

checkForRawHTML(file, text) ==
  LET found == SelectSeq(RawPatterns, LAMBDA name : RawMatch(text, name)) IN
  [k \in DOMAIN found |-> Violation("RAW_HTML_DETECTED", file, found[k])]

\* validateWebComponentUsage, lines 310-320
validateWebComponentUsage(tree) ==
  LET pageFiles == findFiles("{pages,workflows}/**/*.html", tree) IN
  Flatten([i \in DOMAIN pageFiles |->
             checkForRawHTML(pageFiles[i], tree[pageFiles[i]].text)])

\* validateLayerDependencies, lines 348-359: one component file
checkLayer(file, text) ==
  IF Contains(text, "../pages/") \/ Contains(text, "../workflows/")
    THEN <<Violation("LAYER_VIOLATION", file, "Layer 1")>>
    ELSE <<>>

validateLayerDependencies(tree) ==
  LET componentFiles == findFiles("components/**/*.js", tree) IN
  Flatten([i \in DOMAIN componentFiles |->
             checkLayer(componentFiles[i], tree[componentFiles[i]].text)])

ArchStep(from, to, found) ==
  /\ archPc = from
  /\ violations' = violations \o found
  /\ archPc' = to
  /\ UNCHANGED <<archTree, mainCss, archPassed, registryVars, tokenVars, suiteVars, raceVars, elementVars, promptVars,
                 visualVars>>

ValidateCss == ArchStep("validate", "css", validateCssSingleSourceOfTruth(archTree, mainCss))

ValidateWebComponents == ArchStep("css", "markup", validateWebComponentUsage(archTree))

ValidateLayers == ArchStep("markup", "layers", validateLayerDependencies(archTree))

\* generateReport, then `return this.violations.length === 0`
ValidateReturn ==
  /\ archPc = "layers"
  /\ archPassed' = (violations = <<>>)
  /\ archPc' = "done"
  /\ UNCHANGED <<archTree, mainCss, violations, registryVars, tokenVars, suiteVars, raceVars, elementVars, promptVars,
                 visualVars>>

ArchTrees ==
  [ArchPaths -> {NoArchFile} \cup [present : {TRUE}, text : ArchTexts]]


(***************************************************************************)
(* CSS token validator (scripts/css-token-validator.js)                    *)
(***************************************************************************)
CardCss  == [dir |-> "components", base |-> "card",   ext |-> "css"]
MainCss  == [dir |-> "styles",     base |-> "main",   ext |-> "css"]
HomeHtml == [dir |-> "pages",      base |-> "home",   ext |-> "html"]
CardJs   == [dir |-> "components", base |-> "x-card", ext |-> "js"]

\* the order in which glob lists the files
TokenOrder == <<CardCss, MainCss, HomeHtml, CardJs>>

TokenPaths == {TokenOrder[i] : i \in DOMAIN TokenOrder}

\* custom properties a stylesheet may declare, and names a var() may refer to
TokenNames == {"--card-bg", "--card-bg-dark", "--gap"}

RefNames == TokenNames \cup {"--totally-unknown"}

\* the var(--x) references of a file, in the order of the text
RefLists == {<<>>, <<"--card-bg">>, <<"--card-bg-dark">>, <<"--gap">>,
             <<"--totally-unknown">>,
             <<"--totally-unknown", "--totally-unknown">>,
             <<"--card-bg-dark", "--gap">>}

\* a file: the tokens it declares, its var() references, whether a line holds
\* a literal like #fff or 12px, whether it names a class like cardTitle
NoTokenFile == [present |-> FALSE, declares |-> {}, refs |-> <<>>,
                hardcoded |-> FALSE, badClass |-> FALSE]

\* glob(pattern, {ignore}) for the patterns the validator uses
TokenGlob(pattern, ignore, tree) ==
  SelectSeq(TokenOrder,
            LAMBDA p : /\ tree[p].present
                       /\ p \notin ignore
                       /\ CASE pattern = "**/*.css"  -> p.ext = "css"
                            [] pattern = "**/*.html" -> p.ext = "html"
                            [] pattern = "**/*.js"   -> p.ext = "js"
                            [] pattern = "components/**/*.js" ->
                                 p.dir = "components" /\ p.ext = "js")

TokenViolation(type, severity, file, token, details) ==
  [type |-> type, severity |-> severity, file |-> file, token |-> token,
   details |-> details]

NoPath == [dir |-> "", base |-> "", ext |-> ""]

\* extractTokens, lines 42-67: this.tokens.set on the map the instance has
extractTokens(toks, tree) ==
  IF ~tree[MainCss].present
    THEN [tokens |-> toks,
          violations |-> <<TokenViolation("missing-file", "error", MainCss, "", {})>>]
    ELSE [tokens |-> [n \in DOMAIN toks \cup tree[MainCss].declares |->
                        IF n \in tree[MainCss].declares
                          THEN [usageCount |-> 0] ELSE toks[n]],
          violations |-> <<>>]

\* line 121: the expression var\(--name, without anything after the name,
\* matches the text var(--ref) when ref starts with name
UsageRegexMatches(name, ref) ==
  \/ name = ref
  \/ name = "--card-bg" /\ ref = "--card-bg-dark"

\* lines 122-123: content.match(regex).length
MatchCount(name, refs) ==
  Cardinality({i \in DOMAIN refs : UsageRegexMatches(name, refs[i])})

\* a check that reports each unknown name of a file once
checkTokenUsageOncePerName(toks, file, refs) ==
  LET unknownNames == {refs[i] : i \in DOMAIN refs} \ DOMAIN toks
      firsts == SelectSeq([i \in DOMAIN refs |->
                             IF refs[i] \in unknownNames
                                  /\ \A j \in 1..(i - 1) : refs[j] /= refs[i]
                               THEN refs[i] ELSE ""],
                          LAMBDA r : r /= "")
  IN [tokens |-> [n \in DOMAIN toks |->
                    [usageCount |-> toks[n].usageCount + MatchCount(n, refs)]],
      violations |-> [k \in DOMAIN firsts |->
                        TokenViolation("unknown-token", "error", file, firsts[k], {})]]

\* checkTokenUsageInFile, lines 113-140
checkTokenUsageInFile(toks, file, refs) ==
  LET unknown == SelectSeq(refs, LAMBDA r : r \notin DOMAIN toks) IN
  [tokens |-> [n \in DOMAIN toks |->
                 [usageCount |-> toks[n].usageCount + MatchCount(n, refs)]],
   violations |-> [k \in DOMAIN unknown |->
                     TokenViolation("unknown-token", "error", file, unknown[k], {})]]

RECURSIVE CheckUsage(_, _, _)
\* lines 86-88: the forEach over the files
CheckUsage(toks, fs, tree) ==
  IF fs = <<>> THEN [tokens |-> toks, violations |-> <<>>]
  ELSE LET one  == checkTokenUsageInFile(toks, Head(fs), tree[Head(fs)].refs)
           rest == CheckUsage(one.tokens, Tail(fs), tree)
       IN [tokens |-> rest.tokens, violations |-> one.violations \o rest.violations]

\* validateTokenUsage, lines 79-102
validateTokenUsage(toks, tree) ==
  LET all    == TokenGlob("**/*.css", {}, tree) \o TokenGlob("**/*.html", {}, tree)
                  \o TokenGlob("**/*.js", {}, tree)
      used   == CheckUsage(toks, all, tree)
      unused == {n \in DOMAIN used.tokens : used.tokens[n].usageCount = 0}
  IN [tokens |-> used.tokens,
      violations |->
        used.violations \o
          (IF unused /= {}
             THEN <<TokenViolation("unused-tokens", "warning", NoPath, "", unused)>>
             ELSE <<>>)]

\* checkHardcodedValues, lines 142-185
checkHardcodedValues(tree) ==
  LET checked == TokenGlob("**/*.css", {MainCss}, tree)
                   \o TokenGlob("components/**/*.js", {}, tree)
      found   == SelectSeq(checked, LAMBDA f : tree[f].hardcoded)
  IN [k \in DOMAIN found |->
        TokenViolation("hardcoded-value", "warning", found[k], "", {})]

\* validateBEMNaming, lines 187-215
validateBEMNaming(tree) ==
  LET checked == TokenGlob("**/*.css", {}, tree) \o TokenGlob("**/*.html", {}, tree)
                   \o TokenGlob("components/**/*.js", {}, tree)
      found   == SelectSeq(checked, LAMBDA f : tree[f].badClass)
  IN [k \in DOMAIN found |->
        TokenViolation("bem-violation", "error", found[k], "", {})]

\* a command that fails on errors only
tokensCommandOnErrors(run) ==
  IF run.threw THEN [exits |-> TRUE, code |-> 1]
  ELSE IF SelectSeq(run.issues, LAMBDA v : v.severity = "error") /= <<>>
    THEN [exits |-> TRUE, code |-> 1]
  ELSE [exits |-> FALSE, code |-> 0]

\* the exported validateTokens(options), lines 368-390: whether it ends the
\* process, and with which code
tokensCommand(run) ==
  IF run.threw THEN [exits |-> TRUE, code |-> 1]
  ELSE IF run.violations > 0 THEN [exits |-> TRUE, code |-> 1]
  ELSE [exits |-> FALSE, code |-> 0]

NoTokenResult == [cmd |-> "none"]

TokStep(from, to, toks, found) ==
  /\ tokPc = from
  /\ tokens' = toks
  /\ tokViolations' = tokViolations \o found
  /\ tokPc' = to
  /\ UNCHANGED <<tokTree, tokResult, registryVars, archVars, suiteVars, raceVars, elementVars, promptVars,
                 visualVars>>

ExtractTokens ==
  LET r == extractTokens(tokens, tokTree) IN TokStep("extract", "usage", r.tokens, r.violations)

ValidateTokenUsage ==
  LET r == validateTokenUsage(tokens, tokTree) IN
  TokStep("usage", "hardcoded", r.tokens, r.violations)

CheckHardcodedValues ==
  TokStep("hardcoded", "bem", tokens, checkHardcodedValues(tokTree))

ValidateBEMNaming ==
  TokStep("bem", "return", tokens, validateBEMNaming(tokTree))

\* validateTokens returns its results (lines 35-39) to the command
TokensReturn ==
  /\ tokPc = "return"
  /\ LET results == [threw       |-> FALSE,
                     tokensFound |-> Cardinality(DOMAIN tokens),
                     violations  |-> Len(tokViolations),
                     issues      |-> tokViolations]
     IN tokResult' = [cmd |-> "tokens", results |-> results,
                      end |-> tokensCommand(results), previous |-> tokResult]
  /\ tokPc' = "done"
  /\ UNCHANGED <<tokTree, tokens, tokViolations, registryVars, archVars, suiteVars, raceVars, elementVars, promptVars,
                 visualVars>>

\* a caller of the exported class calls validateTokens() on the instance once
\* more: the constructor (lines 11-16) does not run again
ValidateTokensAgain ==
  /\ tokPc = "done"
  /\ tokResult.previous.cmd = "none"
  /\ tokPc' = "extract"
  /\ UNCHANGED <<tokTree, tokens, tokViolations, tokResult, registryVars, archVars,
                 suiteVars, raceVars, elementVars, promptVars,
                 visualVars>>

TokenFile(declares, refs, hardcoded, badClass) ==
  [present |-> TRUE, declares |-> declares, refs |-> refs,
   hardcoded |-> hardcoded, badClass |-> badClass]

\* the trees the validator is run in: a main stylesheet that declares tokens,
\* a component stylesheet, a page and a component script
TokenTrees ==
  {[p \in TokenPaths |->
      CASE p = MainCss  -> m
        [] p = CardCss  -> c
        [] p = HomeHtml -> h
        [] p = CardJs   -> j] :
     m \in {NoTokenFile} \cup {TokenFile(d, r, FALSE, FALSE) :
                                 d \in SUBSET TokenNames, r \in {<<>>, <<"--card-bg">>}},
     c \in {NoTokenFile} \cup {TokenFile({}, r, hc, FALSE) : r \in RefLists, hc \in BOOLEAN},
     h \in {NoTokenFile} \cup {TokenFile({}, r, FALSE, bc) : r \in RefLists, bc \in BOOLEAN},
     j \in {NoTokenFile} \cup {TokenFile({}, r, FALSE, FALSE) :
                                 r \in {<<>>, <<"--totally-unknown">>}}}

(***************************************************************************)
(* validate-all (bin/cli.js)                                               *)
(***************************************************************************)
\* what `node scripts/validate-architecture.js` exits with
ArchitectureOutcomes == {[code |-> 0], [code |-> 1]}

\* what registryCommand('validate') comes to: a throw or {valid, issues}
RegistryOutcomes ==
  {[threw |-> TRUE, valid |-> 0, issues |-> 0]}
    \cup {[threw |-> FALSE, valid |-> v, issues |-> n] : v \in 0..1, n \in 0..2}

\* what validator.validateTokens() comes to: a throw or its results
TokenOutcomes ==
  {[threw |-> TRUE, violations |-> 0]}
    \cup {[threw |-> FALSE, violations |-> n] : n \in 0..2}

\* what runner.runAllTests() comes to: a throw or its results
VisualOutcomes ==
  {[threw |-> TRUE, failed |-> 0]}
    \cup {[threw |-> FALSE, failed |-> n] : n \in 0..2}

\* testCommand(options), visual-testing.js lines 438-454: whether it ends the
\* process, and with which code
testCommand(run, updateSnapshots) ==
  IF run.threw THEN [exits |-> TRUE, code |-> 1]
  ELSE IF run.failed > 0 /\ ~updateSnapshots THEN [exits |-> TRUE, code |-> 1]
  ELSE [exits |-> FALSE, code |-> 0]

Running == [exited |-> FALSE, code |-> 0, summary |-> FALSE]

\* process.exit(code) inside a stage
SuiteExit(code) ==
  /\ suitePc' = "exited"
  /\ suiteEnd' = [exited |-> TRUE, code |-> code, summary |-> FALSE]
  /\ UNCHANGED allPassed

\* the stage returned or threw into the catch of validate-all
SuiteGoOn(to, passed) ==
  /\ suitePc' = to
  /\ allPassed' = (allPassed /\ passed)
  /\ UNCHANGED suiteEnd

\* lines 376-385
SuiteArchitecture ==
  /\ suitePc = "architecture"
  /\ \E child \in ArchitectureOutcomes :
       /\ stagesRun' = Append(stagesRun, [stage |-> "architecture", outcome |-> child])
       /\ SuiteGoOn("registry", child.code = 0)
  /\ UNCHANGED <<registryVars, archVars, tokenVars, raceVars, elementVars, promptVars,
                 visualVars>>

\* lines 387-400
SuiteRegistry ==
  /\ suitePc = "registry"
  /\ \E run \in RegistryOutcomes :
       /\ stagesRun' = Append(stagesRun, [stage |-> "registry", outcome |-> run])
       /\ SuiteGoOn("tokens", ~run.threw /\ run.issues = 0)
  /\ UNCHANGED <<registryVars, archVars, tokenVars, raceVars, elementVars, promptVars,
                 visualVars>>

\* lines 402-415
SuiteTokens ==
  /\ suitePc = "tokens"
  /\ \E run \in TokenOutcomes :
       /\ stagesRun' = Append(stagesRun, [stage |-> "tokens", outcome |-> run])
       /\ LET end == tokensCommand(run) IN
            IF end.exits THEN SuiteExit(end.code)
            ELSE SuiteGoOn("visual", run.violations = 0)
  /\ UNCHANGED <<registryVars, archVars, tokenVars, raceVars, elementVars, promptVars,
                 visualVars>>

\* lines 417-430
SuiteVisual ==
  /\ suitePc = "visual"
  /\ \E run \in VisualOutcomes :
       /\ stagesRun' = Append(stagesRun, [stage |-> "visual", outcome |-> run])
       /\ LET end == testCommand(run, FALSE) IN
            IF end.exits THEN SuiteExit(end.code)
            ELSE SuiteGoOn("summary", run.failed = 0)
  /\ UNCHANGED <<registryVars, archVars, tokenVars, raceVars, elementVars, promptVars,
                 visualVars>>

\* lines 432-440: the summary, then process.exit(1) or the end of the action
SuiteSummary ==
  /\ suitePc = "summary"
  /\ suitePc' = "exited"
  /\ suiteEnd' = [exited |-> TRUE, code |-> IF allPassed THEN 0 ELSE 1, summary |-> TRUE]
  /\ UNCHANGED <<allPassed, stagesRun, registryVars, archVars, tokenVars, raceVars, elementVars, promptVars,
                 visualVars>>

(***************************************************************************)
(* Registry invocations that overlap                                       *)
(***************************************************************************)
\* two `ui-canvas registry` processes started in the same project
Procs == {1, 2}

RaceCommands == {"init", "scan"}

Ready == [pc |-> "ready", cmd |-> "none", manifest |-> EmptyMap, loadedFrom |-> Absent]

RECURSIVE ScanAll(_, _, _, _)
\* the loop of scanComponents, lines 79-101, over the files the globs found
ScanAll(m, t, found, fs) ==
  IF found = <<>> THEN m
  ELSE LET r == ReconcileFile(m, t, Head(found), fs) IN
       ScanAll(r.manifest, r.tally, Tail(found), fs)

\* registryCommand lines 497-498 / scanComponents lines 67-101: the
\* invocation loads the manifest and changes it in its own memory
RaceLoad(i, cmd) ==
  /\ procs[i].pc = "ready"
  /\ LET l == loadManifest(disk, clock) IN
       procs' = [procs EXCEPT ![i] =
         IF ~l.ok
           THEN [pc |-> "failed", cmd |-> cmd, manifest |-> EmptyMap, loadedFrom |-> disk]
           ELSE [pc |-> "loaded", cmd |-> cmd,
                 manifest |->
                   IF cmd = "scan"
                     THEN ScanAll(l.manifest, NoTally,
                                  Glob("components", files) \o Glob("pages", files)
                                    \o Glob("workflows", files), files)
                     ELSE l.manifest,
                 loadedFrom |-> disk]]
  /\ UNCHANGED <<lastWriter, registryVars, archVars, tokenVars, suiteVars,
                 elementVars, promptVars, visualVars>>

\* registryCommand line 499 / scanComponents line 103: saveManifest
RaceSave(i) ==
  /\ procs[i].pc = "loaded"
  /\ disk' = saveManifest(procs[i].manifest, clock)
  /\ procs' = [procs EXCEPT ![i].pc = "done",
                            ![i].manifest = UpdateStats(procs[i].manifest, clock)]
  /\ lastWriter' = i
  /\ UNCHANGED <<files, clock, writes, pc, manifest, pending, tally, result, prevTree,
                 docs, archVars, tokenVars, suiteVars, elementVars, promptVars,
                 visualVars>>

\* no invocation has started
RaceOff ==
  /\ procs = [i \in Procs |-> Ready]
  /\ lastWriter = 0


(***************************************************************************)
(* The web component base class (templates/web-components)                 *)
(***************************************************************************)
\* the class of the element: the base class itself, whose render() throws,
\* or a class made by ComponentGenerator.createComponent
Classes == {"UICanvasComponent", "createComponent"}

\* observedAttributes and the values an attribute is set to
PropNames == {"title"}

PropValues == {"a", "b"}

Undefined == "undefined"

\* constructor: an empty _props map and _initialized = false
NewElement(class) ==
  [class |-> class, initialized |-> FALSE, props |-> [n \in PropNames |-> Undefined]]

\* one entry of the call log: a callback or a method, and whether it returned
Call(fn, completed) == [fn |-> fn, completed |-> completed]

\* render() of the base class throws, the generated one returns
renderCompletes(el) == el.class # "UICanvasComponent"

\* connectedCallback: initialize once, mark initialized, render
connectedCallback(el, log) ==
  LET first == ~el.initialized
      inits == IF first THEN <<Call("initialize", TRUE)>> ELSE <<>>
  IN [element |-> [el EXCEPT !.initialized = TRUE],
      calls |-> log \o <<Call("connectedCallback", renderCompletes(el))>> \o inits
                    \o <<Call("render", renderCompletes(el))>>]

\* disconnectedCallback: cleanup
disconnectedCallback(el, log) ==
  [element |-> el,
   calls |-> log \o <<Call("disconnectedCallback", TRUE), Call("cleanup", TRUE)>>]

\* setProp: store the value, then tell onPropChange
setProp(el, key, value) == [el EXCEPT !.props[key] = value]

\* the variant of attributeChangedCallback that renders whether or not the
\* element has been initialized
attributeChangedCallbackAlwaysRendering(el, log, name, newValue) ==
  [element |-> setProp(el, name, newValue),
   calls |-> log \o <<Call("attributeChangedCallback", renderCompletes(el)),
                      Call("setProp", TRUE), Call("onPropChange", TRUE),
                      Call("render", renderCompletes(el))>>]

\* attributeChangedCallback: record the prop, render only once initialized
attributeChangedCallback(el, log, name, newValue) ==
  LET renders == IF el.initialized THEN <<Call("render", renderCompletes(el))>> ELSE <<>>
  IN [element |-> setProp(el, name, newValue),
      calls |-> log \o <<Call("attributeChangedCallback",
                              el.initialized => renderCompletes(el)),
                         Call("setProp", TRUE), Call("onPropChange", TRUE)>> \o renders]

Callbacks == {"connectedCallback", "disconnectedCallback", "attributeChangedCallback"}

\* the callbacks made so far
CallbacksMade == Cardinality({i \in DOMAIN calls : calls[i].fn \in Callbacks})

\* the element is attached to a document
ConnectedCallback ==
  /\ CallbacksMade < MaxCallbacks
  /\ LET r == connectedCallback(element, calls) IN
       /\ element' = r.element
       /\ calls' = r.calls
  /\ UNCHANGED <<registryVars, archVars, tokenVars, suiteVars, raceVars, promptVars,
                 visualVars>>

\* the element is detached
DisconnectedCallback ==
  /\ CallbacksMade < MaxCallbacks
  /\ LET r == disconnectedCallback(element, calls) IN
       /\ element' = r.element
       /\ calls' = r.calls
  /\ UNCHANGED <<registryVars, archVars, tokenVars, suiteVars, raceVars, promptVars,
                 visualVars>>

\* an observed attribute is set
AttributeChangedCallback(name, newValue) ==
  /\ CallbacksMade < MaxCallbacks
  /\ LET r == attributeChangedCallback(element, calls, name, newValue) IN
       /\ element' = r.element
       /\ calls' = r.calls
  /\ UNCHANGED <<registryVars, archVars, tokenVars, suiteVars, raceVars, promptVars,
                 visualVars>>

\* no element has been created
ElementOff ==
  /\ element = NewElement("createComponent")
  /\ calls = <<>>

(***************************************************************************)
(* `ui-canvas setup-prompts` (bin/cli.js)                                  *)
(***************************************************************************)
PromptFiles == {"CLAUDE.md", "CLAUDE.md.backup", "CLAUDE-superdesign.md",
                "CLAUDE-framework.md"}

\* what a file holds: nothing, the user's configuration (one that names
\* SuperDesign, one that does not), an older backup, or one of the two
\* templates shipped in templates/
NoPrompt == "absent"

UserPrompts == {"user-superdesign", "user-custom"}

\* /superdesign|SuperDesign/.test(content): templates/CLAUDE-integrated.md
\* names SuperDesign, templates/CLAUDE-framework.md does not
MentionsSuperDesign(content) == content \in {"user-superdesign", "CLAUDE-integrated"}

\* fs.copyFileSync(from, to) with `from` a file of the project
copyFileSync(fs, from, to) == [fs EXCEPT ![to] = fs[from]]

Modes == {"none", "1", "2", "3", "4"}

\* the action of the command: the files after `setup-prompts <mode>`
setupPrompts(fs, mode) ==
  CASE mode = "2" ->
         LET backed == IF fs["CLAUDE.md"] # NoPrompt
                         THEN copyFileSync(fs, "CLAUDE.md", "CLAUDE.md.backup")
                         ELSE fs
         IN [backed EXCEPT !["CLAUDE.md"] = "CLAUDE-framework"]
    [] mode = "3" ->
         LET backed == IF fs["CLAUDE.md"] = NoPrompt
                         THEN fs
                         ELSE IF MentionsSuperDesign(fs["CLAUDE.md"])
                           THEN copyFileSync(fs, "CLAUDE.md", "CLAUDE-superdesign.md")
                           ELSE copyFileSync(fs, "CLAUDE.md", "CLAUDE.md.backup")
         IN [backed EXCEPT !["CLAUDE.md"] = "CLAUDE-integrated",
                           !["CLAUDE-framework.md"] = "CLAUDE-framework"]
    [] OTHER -> fs

\* one invocation of `ui-canvas setup-prompts [mode]`
SetupPrompts(mode) ==
  /\ Len(setups) < MaxSetups
  /\ promptFiles' = setupPrompts(promptFiles, mode)
  /\ setups' = Append(setups, mode)
  /\ UNCHANGED <<original, registryVars, archVars, tokenVars, suiteVars, raceVars,
                 elementVars, visualVars>>

\* a project without AI configuration, where the command has not been run
PromptsOff ==
  /\ promptFiles = [f \in PromptFiles |-> NoPrompt]
  /\ original = NoPrompt
  /\ setups = <<>>

(***************************************************************************)
(* Visual regression tests (scripts/visual-testing.js)                     *)
(***************************************************************************)
\* generateComponentTestCases: the two test cases of a component, which
\* name its snapshots
TestCases == <<"default", "all-props">>

SnapshotNames == {TestCases[i] : i \in DOMAIN TestCases}

\* screenshots as byte strings: two of one size, one of another
Images == {<<1>>, <<2>>, <<1, 1>>}

NoPng == [exists |-> FALSE, bytes |-> <<>>]

Png(bytes) == [exists |-> TRUE, bytes |-> bytes]

\* element.screenshot(): the image, or an exception (no such element)
Shots == {[ok |-> TRUE, bytes |-> b] : b \in Images} \cup {[ok |-> FALSE, bytes |-> <<>>]}

NoCompare == [name |-> "none", update |-> FALSE, shot |-> <<>>, returned |-> "none"]

NoVisualResults == [passed |-> 0, failed |-> 0, updated |-> 0, errors |-> 0]

\* compareImages: equal sizes and equal bytes; the current screenshot is
\* copied to the diff file when only the bytes differ
compareImages(baseline, current) ==
  IF Len(baseline) # Len(current)
    THEN [identical |-> FALSE, writesDiff |-> FALSE]
    ELSE [identical |-> baseline = current, writesDiff |-> baseline # current]

\* the variant of compareSnapshot without the finally block: the temporary
\* screenshot is removed only when the images are identical
compareSnapshotWithoutFinally(fs, name, shot, update) ==
  IF ~shot.ok
    THEN [fs |-> fs, returned |-> "threw"]
    ELSE IF update \/ ~fs.baselines[name].exists
      THEN [fs |-> [fs EXCEPT !.baselines[name] = Png(shot.bytes)], returned |-> "updated"]
      ELSE LET comparison == compareImages(fs.baselines[name].bytes, shot.bytes)
           IN IF comparison.identical
                THEN [fs |-> fs, returned |-> "passed"]
                ELSE [fs |-> [fs EXCEPT !.temps[name] = Png(shot.bytes),
                                        !.diffs[name] = IF comparison.writesDiff
                                                          THEN Png(shot.bytes) ELSE @],
                      returned |-> "failed"]

\* compareSnapshot: the files afterwards and what the call returned
compareSnapshot(fs, name, shot, update) ==
  IF ~shot.ok
    THEN [fs |-> fs, returned |-> "threw"]
    ELSE IF update \/ ~fs.baselines[name].exists
      THEN [fs |-> [fs EXCEPT !.baselines[name] = Png(shot.bytes)], returned |-> "updated"]
      ELSE LET written == [fs EXCEPT !.temps[name] = Png(shot.bytes)]
               comparison == compareImages(fs.baselines[name].bytes, shot.bytes)
               diffed == IF comparison.writesDiff
                           THEN [written EXCEPT !.diffs[name] = Png(shot.bytes)]
                           ELSE written
           IN [fs |-> [diffed EXCEPT !.temps[name] = NoPng],
               returned |-> IF comparison.identical THEN "passed" ELSE "failed"]

\* testComponent lines 113-129: count what compareSnapshot returned
Count(results, returned) ==
  CASE returned = "passed" -> [results EXCEPT !.passed = @ + 1]
    [] returned = "updated" -> [results EXCEPT !.updated = @ + 1]
    [] returned = "failed" -> [results EXCEPT !.failed = @ + 1, !.errors = @ + 1]
    [] OTHER -> [results EXCEPT !.errors = @ + 1]

\* testComponent starts on a component, with or without --update-snapshots
TestComponent(update) ==
  /\ visPc = <<>>
  /\ visRuns < MaxRuns
  /\ visRuns' = visRuns + 1
  /\ visPc' = TestCases
  /\ visUpdate' = update
  /\ visResults' = NoVisualResults
  /\ visLast' = NoCompare
  /\ UNCHANGED <<baselines, diffs, temps, registryVars, archVars, tokenVars, suiteVars,
                 raceVars, elementVars, promptVars>>

\* one turn of its loop: the screenshot of a test case is compared
CompareCase(shot) ==
  /\ visPc # <<>>
  /\ LET name == Head(visPc)
         r == compareSnapshot([baselines |-> baselines, diffs |-> diffs, temps |-> temps],
                              name, shot, visUpdate)
     IN /\ baselines' = r.fs.baselines
        /\ diffs' = r.fs.diffs
        /\ temps' = r.fs.temps
        /\ visResults' = Count(visResults, r.returned)
        /\ visLast' = [name |-> name, update |-> visUpdate, shot |-> shot.bytes,
                       returned |-> r.returned]
  /\ visPc' = Tail(visPc)
  /\ UNCHANGED <<visUpdate, visRuns, registryVars, archVars, tokenVars, suiteVars,
                 raceVars, elementVars, promptVars>>

\* no visual test has run, and there are no snapshots
VisualOff ==
  /\ baselines = [n \in SnapshotNames |-> NoPng]
  /\ diffs = [n \in SnapshotNames |-> NoPng]
  /\ temps = [n \in SnapshotNames |-> NoPng]
  /\ visPc = <<>>
  /\ visUpdate = FALSE
  /\ visResults = NoVisualResults
  /\ visLast = NoCompare
  /\ visRuns = 0

EmptyTree == [p \in Paths |-> NoFile]

\* a project with one file per path, all declaring the prop `title`
FullTree ==
  [p \in Paths |-> [present |-> TRUE, readable |-> TRUE, content |-> "title", mtime |-> 0]]

\* no token validation and no validate-all is running
TokensOff ==
  /\ tokTree = [p \in TokenPaths |-> NoTokenFile]
  /\ tokens = <<>>
  /\ tokViolations = <<>>
  /\ tokPc = "off"
  /\ tokResult = NoTokenResult

SuiteOff ==
  /\ suitePc = "off"
  /\ allPassed = TRUE
  /\ stagesRun = <<>>
  /\ suiteEnd = Running

Init ==
  /\ files \in {EmptyTree, FullTree}
  /\ clock = 0
  /\ disk \in {Absent, Garbage, HandWritten}
  /\ writes = 0
  /\ pc = "idle"
  /\ manifest = EmptyMap
  /\ pending = <<>>
  /\ tally = NoTally
  /\ result = NoResult
  /\ prevTree = [scanned |-> FALSE, files |-> EmptyTree]
  /\ docs = {}
  /\ archTree = [p \in ArchPaths |-> NoArchFile]
  /\ mainCss = TRUE
  /\ violations = <<>>
  /\ archPc = "off"
  /\ archPassed = FALSE
  /\ TokensOff
  /\ SuiteOff
  /\ RaceOff
  /\ ElementOff
  /\ PromptsOff
  /\ VisualOff

Edit(limit) ==
  \/ \E p \in Paths, content \in Contents : WriteFile(p, content, limit)
  \/ \E p \in Paths : RemoveFile(p, limit)
  \/ \E p \in Paths : Chmod(p, limit)

Scan ==
  \/ ScanStart
  \/ ScanFile
  \/ ScanSave

Query ==
  \/ \E options \in ListOptions : RegistryList(options)
  \/ \E name \in InfoNames : RegistryInfo(name)
  \/ RegistryDocs
  \/ RegistryValidate

\* the Scanner and the Registry Store under edits of the tree
Next ==
  \/ Edit(MaxClock)
  \/ Scan
  \/ ScanInterrupt
  \/ RegistryInit

Spec == Init /\ [][Next]_vars

\* files get deleted or locked behind the registry's back
Disturb(limit) ==
  \/ \E p \in Paths : RemoveFile(p, limit)
  \/ \E p \in Paths : Chmod(p, limit)

\* every registry subcommand
NextCli ==
  \/ Disturb(MaxClock)
  \/ Scan
  \/ RegistryInit
  \/ Query

SpecCli == Init /\ [][NextCli]_vars

\* one run of the architecture validator in a project tree
InitArch ==
  /\ files = EmptyTree
  /\ clock = 0
  /\ disk = Absent
  /\ writes = 0
  /\ pc = "idle"
  /\ manifest = EmptyMap
  /\ pending = <<>>
  /\ tally = NoTally
  /\ result = NoResult
  /\ prevTree = [scanned |-> FALSE, files |-> EmptyTree]
  /\ docs = {}
  /\ archTree \in ArchTrees
  /\ mainCss \in BOOLEAN
  /\ violations = <<>>
  /\ archPc = "validate"
  /\ archPassed = FALSE
  /\ TokensOff
  /\ SuiteOff
  /\ RaceOff
  /\ ElementOff
  /\ PromptsOff
  /\ VisualOff

NextArch ==
  \/ ValidateCss
  \/ ValidateWebComponents
  \/ ValidateLayers
  \/ ValidateReturn

SpecArch == InitArch /\ [][NextArch]_vars

\* no registry command and no architecture validation is running
RegistryOff ==
  /\ files = EmptyTree
  /\ clock = 0
  /\ disk = Absent
  /\ writes = 0
  /\ pc = "idle"
  /\ manifest = EmptyMap
  /\ pending = <<>>
  /\ tally = NoTally
  /\ result = NoResult
  /\ prevTree = [scanned |-> FALSE, files |-> EmptyTree]
  /\ docs = {}

ArchOff ==
  /\ archTree = [p \in ArchPaths |-> NoArchFile]
  /\ mainCss = TRUE
  /\ violations = <<>>
  /\ archPc = "off"
  /\ archPassed = FALSE

\* registry invocations started without waiting for one another, while the
\* tree is edited
NextRace ==
  \/ \E i \in Procs, cmd \in RaceCommands : RaceLoad(i, cmd)
  \/ \E i \in Procs : RaceSave(i)
  \/ Edit(MaxClock)

SpecRace == Init /\ [][NextRace]_vars

\* one run of `ui-canvas tokens` in a project tree
InitTokens ==
  /\ RegistryOff
  /\ ArchOff
  /\ SuiteOff
  /\ RaceOff
  /\ ElementOff
  /\ PromptsOff
  /\ VisualOff
  /\ tokTree \in TokenTrees
  /\ tokens = <<>>
  /\ tokViolations = <<>>
  /\ tokPc = "extract"
  /\ tokResult = NoTokenResult

NextTokens ==
  \/ ExtractTokens
  \/ ValidateTokenUsage
  \/ CheckHardcodedValues
  \/ ValidateBEMNaming
  \/ TokensReturn

SpecTokens == InitTokens /\ [][NextTokens]_vars

\* two runs of validateTokens() on one CSSTokenValidator
NextTokensTwice ==
  \/ NextTokens
  \/ ValidateTokensAgain

SpecTokensTwice == InitTokens /\ [][NextTokensTwice]_vars

\* one run of `ui-canvas validate-all`
InitSuite ==
  /\ RegistryOff
  /\ ArchOff
  /\ TokensOff
  /\ RaceOff
  /\ ElementOff
  /\ PromptsOff
  /\ VisualOff
  /\ suitePc = "architecture"
  /\ allPassed = TRUE
  /\ stagesRun = <<>>
  /\ suiteEnd = Running

NextSuite ==
  \/ SuiteArchitecture
  \/ SuiteRegistry
  \/ SuiteTokens
  \/ SuiteVisual
  \/ SuiteSummary

SpecSuite == InitSuite /\ [][NextSuite]_vars

\* the callbacks a browser makes on one element, in any order
InitElement ==
  /\ RegistryOff
  /\ ArchOff
  /\ TokensOff
  /\ SuiteOff
  /\ RaceOff
  /\ PromptsOff
  /\ VisualOff
  /\ element \in {NewElement(c) : c \in Classes}
  /\ calls = <<>>

NextElement ==
  \/ ConnectedCallback
  \/ DisconnectedCallback
  \/ \E n \in PropNames, v \in PropValues : AttributeChangedCallback(n, v)

SpecElement == InitElement /\ [][NextElement]_vars

\* `ui-canvas setup-prompts` run again and again in a project
InitPrompts ==
  /\ RegistryOff
  /\ ArchOff
  /\ TokensOff
  /\ SuiteOff
  /\ RaceOff
  /\ ElementOff
  /\ VisualOff
  /\ promptFiles \in {[f \in PromptFiles |->
                         CASE f = "CLAUDE.md" -> c
                           [] f = "CLAUDE.md.backup" -> b
                           [] OTHER -> NoPrompt] :
                      c \in UserPrompts \cup {NoPrompt}, b \in {NoPrompt, "older-backup"}}
  /\ original = promptFiles["CLAUDE.md"]
  /\ setups = <<>>

NextPrompts == \E mode \in Modes : SetupPrompts(mode)

SpecPrompts == InitPrompts /\ [][NextPrompts]_vars

\* testComponent on one component, with any snapshots already on disk
InitVisual ==
  /\ RegistryOff
  /\ ArchOff
  /\ TokensOff
  /\ SuiteOff
  /\ RaceOff
  /\ ElementOff
  /\ PromptsOff
  /\ baselines \in [SnapshotNames -> {NoPng} \cup {Png(b) : b \in Images}]
  /\ diffs = [n \in SnapshotNames |-> NoPng]
  /\ temps = [n \in SnapshotNames |-> NoPng]
  /\ visPc = <<>>
  /\ visUpdate = FALSE
  /\ visResults = NoVisualResults
  /\ visLast = NoCompare
  /\ visRuns = 0

NextVisual ==
  \/ \E update \in BOOLEAN : TestComponent(update)
  \/ \E shot \in Shots : CompareCase(shot)

SpecVisual == InitVisual /\ [][NextVisual]_vars

(***************************************************************************)
(* Properties of the Registry Store and the Scanner                        *)
(***************************************************************************)
Saved == writes > 0

OnDisk == ParseValue(disk.text)

ScanDone == result.cmd = "scan" /\ result.status = "ok"

NamesDerived(fs, readableOnly) ==
  {Basename(p) : p \in {q \in Paths : Present(fs, q) /\ (readableOnly => fs[q].readable)}}

ReadableFiles(fs) == {p \in Paths : Present(fs, p) /\ fs[p].readable}

DistinctNames(fs) ==
  \A p, q \in {x \in Paths : Present(fs, x)} : Basename(p) = Basename(q) => p = q

\* C1: after every saveManifest the persisted stats.totalComponents is the
\* number of keys of the persisted components
C1_TotalIsCount ==
  Saved => OnDisk.stats.totalComponents = Cardinality(DOMAIN OnDisk.components)

C1_Witness ==
  /\ Saved
  /\ "owner" \in DOMAIN OnDisk
  /\ Cardinality(DOMAIN OnDisk.components) = 2

\* C2: after every scan each layer index holds exactly the names whose record
\* has that layer, with the record's path, props and lastModified
C2_LayersProjectComponents ==
  ScanDone =>
    \A l \in {"component", "page", "workflow"} :
      \A n \in DOMAIN OnDisk.components \cup DOMAIN OnDisk.layers[l] :
        /\ n \in DOMAIN OnDisk.layers[l]
             <=> (n \in DOMAIN OnDisk.components /\ OnDisk.components[n].layer = l)
        /\ n \in DOMAIN OnDisk.layers[l] =>
             OnDisk.layers[l][n] = LayerEntry(OnDisk.components[n])

\* a scan that started from a manifest without records
FirstScan == ScanDone /\ result.loaded = EmptyMap

C3_Counts(n) ==
  /\ result.added = n
  /\ result.updated = 0
  /\ OnDisk.stats.totalComponents = n

\* C3 as stated: a scan from an empty manifest of a tree with N readable
\* files returns added = N, updated = 0 and saves totalComponents = N
C3_AddedIsFileCount ==
  FirstScan => C3_Counts(Cardinality(ReadableFiles(files)))

\* C3 amended: the same, for trees in which no two files derive the same name
C3_AddedIsFileCountDistinct ==
  (FirstScan /\ DistinctNames(files)) => C3_Counts(Cardinality(ReadableFiles(files)))

C3_Witness ==
  /\ FirstScan
  /\ DistinctNames(files)
  /\ Cardinality(ReadableFiles(files)) = 2

\* the tree is as the previous completed scan saw it
TreeUnchanged == result.treeBefore.scanned /\ result.treeBefore.files = files

\* C4: a second scan of an unchanged tree returns added = 0 and updated = 0
\* and leaves every record unchanged, name collisions included
C4_RescanIdempotent ==
  (ScanDone /\ TreeUnchanged) =>
    /\ result.added = 0
    /\ result.updated = 0
    /\ OnDisk.components = result.loaded

\* since the previous scan exactly file p had its declared props changed
OnlyPropsOf(p) ==
  /\ result.treeBefore.scanned
  /\ \A q \in Paths \ {p} : result.treeBefore.files[q] = files[q]
  /\ ReadableFiles(result.treeBefore.files) \cap {p} /= {}
  /\ ReadableFiles(files) \cap {p} /= {}
  /\ ExtractProps(result.treeBefore.files[p].content) /= ExtractProps(files[p].content)

\* C5: after one declared prop of one file changed, the next scan returns
\* updated = 1 and added = 0, the file's record holds the new props and every
\* other record is as before
C5_OnePropOneUpdate ==
  \A p \in Paths :
    (ScanDone /\ OnlyPropsOf(p)) =>
      /\ result.updated = 1
      /\ result.added = 0
      /\ OnDisk.components[Basename(p)].props = ExtractProps(files[p].content)
      /\ \A n \in DOMAIN result.loaded \ {Basename(p)} :
           OnDisk.components[n] = result.loaded[n]

NamesKept == DOMAIN ComponentsOf(disk) \subseteq DOMAIN ComponentsOf(disk')

FileGone(n) == ~Present(files, ComponentsOf(disk)[n].path)

RecordKept(n) == ComponentsOf(disk')[n] = ComponentsOf(disk)[n]

\* C6 as stated: no step removes a name from the persisted components, and
\* a record whose file was removed keeps its stored fields
C6_NeverDeleted ==
  [][/\ NamesKept
     /\ \A n \in DOMAIN ComponentsOf(disk) : FileGone(n) => RecordKept(n)]_vars

\* C6 amended: ... keeps its stored fields unless another file of the tree
\* derives the same name
C6_NeverDeletedUnlessRenamed ==
  [][/\ NamesKept
     /\ \A n \in DOMAIN ComponentsOf(disk) :
          (FileGone(n) /\ n \notin NamesDerived(files, FALSE)) => RecordKept(n)]_vars

C6_Witness ==
  /\ ScanDone
  /\ \E n \in DOMAIN result.loaded :
       /\ ~Present(files, result.loaded[n].path)
       /\ n \notin NamesDerived(files, FALSE)
       /\ OnDisk.components[n] = result.loaded[n]
  /\ result.scanned >= 1

\* C7: a load right after a save yields the component names, the records and
\* the stats the saving process had in memory
C7_SaveLoadRoundTrip ==
  Saved =>
    LET l == loadManifest(disk, clock) IN
      /\ l.ok
      /\ DOMAIN l.manifest.components = DOMAIN manifest.components
      /\ \A n \in DOMAIN manifest.components :
           l.manifest.components[n] = manifest.components[n]
      /\ l.manifest.stats = manifest.stats

C7_Witness ==
  /\ Saved
  /\ \E n \in DOMAIN manifest.components : manifest.components[n].props = <<"title", "size">>
  /\ manifest.stats.totalComponents = 2
  /\ manifest.stats.lastUpdated = ToISOString(1)

KnownKeys == {"version", "framework", "generated", "components", "layers", "stats"}

UnknownKeys(d) == IF d.kind = "json" THEN DOMAIN d.text.v \ KnownKeys ELSE {}

\* C8: a load/save cycle keeps every unknown top-level key of the manifest
\* file, with its value
C8_UnknownKeysKept ==
  [][\A k \in UnknownKeys(disk) :
       /\ k \in UnknownKeys(disk')
       /\ disk'.text.v[k] = disk.text.v[k]]_vars

C8_Witness ==
  /\ Saved
  /\ result.cmd = "init"
  /\ UnknownKeys(disk) = {"owner"}

IsFresh(m) ==
  /\ m.components = EmptyMap
  /\ m.layers = [component |-> EmptyMap, page |-> EmptyMap, workflow |-> EmptyMap]
  /\ m.stats.totalComponents = 0

\* C9: with an unparsable manifest file every command fails and none writes
\* the file; a read-only command gets a fresh empty manifest only when the
\* file is absent, the file's content otherwise
C9_ParseErrorSurfaces ==
  /\ disk = Garbage =>
       /\ pc = "idle"
       /\ writes = 0
       /\ result.cmd /= "none" => result.status = "error"
  /\ (result.cmd \in {"list", "info", "docs", "validate"} /\ result.status = "ok") =>
       /\ disk.kind = "absent" => IsFresh(manifest)
       /\ disk.kind = "json" => manifest = OnDisk

C9_Witness ==
  /\ disk = Garbage
  /\ result = Threw("docs")
  /\ \E p \in Paths : Present(files, p)

\* C21: while a scan runs the manifest file is not written, except by the one
\* write that follows the last file and ends the scan; a scan interrupted
\* before that leaves the file as it was when the scan started
C21_SingleWriteAtEnd ==
  [][/\ (pc = "idle" /\ pc' = "scan") => (disk' = disk /\ writes' = 0)
     /\ pc = "scan" =>
          \/ disk' = disk /\ writes' = writes
          \/ /\ pending = <<>>
             /\ writes = 0 /\ writes' = 1
             /\ pc' = "idle"
             /\ result'.status = "ok"]_vars

C21_Witness ==
  /\ result.cmd = "scan"
  /\ result.status = "killed"
  /\ result.scanned = 2
  /\ result.left = 1
  /\ disk = HandWritten

\* files of the tree that readFileSync fails on
LockedFiles(fs) == {p \in Paths : Present(fs, p) /\ ~fs[p].readable}

\* C20: a file whose analysis fails during a scan leaves no record of its
\* own and no increment of added/updated; every file found is still counted
\* as scanned and every readable one has its record; the manifest is saved;
\* a layer directory without files contributes none and raises no error
C20_BadFileSkipped ==
  ScanDone =>
    /\ \A p \in LockedFiles(files) :
         \A n \in DOMAIN OnDisk.components :
           OnDisk.components[n].path = p =>
             (n \in DOMAIN result.loaded /\ result.loaded[n] = OnDisk.components[n])
    /\ result.added + result.updated <= Cardinality(ReadableFiles(files))
    /\ result.scanned = Cardinality({p \in Paths : Present(files, p)})
    /\ \A p \in ReadableFiles(files) : Basename(p) \in DOMAIN OnDisk.components
    /\ writes = 1
    /\ OnDisk.components = manifest.components

C20_Witness ==
  /\ ScanDone
  /\ LockedFiles(files) = {WorkflowsFlow}
  /\ result.loaded = EmptyMap
  /\ DOMAIN OnDisk.components = {"x-card"}
  /\ result.scanned = 3

\* the readable files of the tree that derive the name, in processing order
FilesNamed(fs, name) ==
  SelectSeq(PathOrder, LAMBDA p : Present(fs, p) /\ fs[p].readable /\ Basename(p) = name)

\* C24: when several files of one scan derive the same name the scan ends
\* normally and components holds for that name the record of the one
\* processed last, in the order components/, pages/, workflows/
C24_LastFileWins ==
  ScanDone =>
    \A name \in NamesDerived(files, TRUE) :
      LET same == FilesNamed(files, name) IN
      Len(same) >= 2 =>
        /\ name \in DOMAIN OnDisk.components
        /\ OnDisk.components[name] = analyzeComponent(same[Len(same)], files).metadata

C24_Witness ==
  /\ ScanDone
  /\ Len(FilesNamed(files, "x-card")) = 2
  /\ OnDisk.components["x-card"].path = PagesCard
  /\ result.added = 2

ValidateDone == result.cmd = "validate" /\ result.status = "ok"

LayerMismatches ==
  {i \in result.value.issues : \E x \in i.issues : x.issue = "Layer mismatch"}

\* C27: every record of a manifest built by scans from an absent or empty
\* manifest stores the layer its stored path implies, and validateRegistry
\* reports no 'Layer mismatch'
C27_LayerMatchesPath ==
  /\ \A n \in DOMAIN ComponentsOf(disk) :
       ComponentsOf(disk)[n].layer = expectedLayer(ComponentsOf(disk)[n].path)
  /\ ValidateDone => LayerMismatches = {}

C27_Witness ==
  /\ ValidateDone
  /\ {ComponentsOf(disk)[n].layer : n \in DOMAIN ComponentsOf(disk)} = {"page", "workflow"}
  /\ result.value.valid = 2

\* the invocation saves what it built on the file as the file still is
SavesUnoverlapped(i) ==
  /\ procs[i].pc = "loaded"
  /\ procs'[i].pc = "done"
  /\ procs[i].loadedFrom = disk

\* C26: a save by an invocation that no other write overlapped keeps every
\* persisted record name; in any case the file is, after a write, the whole
\* document of the invocation that wrote last
C26_LastWriterWins ==
  [][\A i \in Procs :
       /\ SavesUnoverlapped(i) => NamesKept
       /\ (procs[i].pc = "loaded" /\ procs'[i].pc = "done") =>
            /\ lastWriter' = i
            /\ disk'.kind = "json"
            /\ ParseValue(disk'.text) = procs'[i].manifest]_vars

\* a record persisted by one invocation is gone after the other's write
C26_Witness ==
  /\ \A i \in Procs : procs[i].pc = "done"
  /\ \E i \in Procs :
       /\ lastWriter /= i
       /\ DOMAIN procs[i].manifest.components \ DOMAIN ComponentsOf(disk) /= {}
       /\ procs[lastWriter].cmd = "scan"

ReadOnlyCommands == {"list", "info", "docs", "validate"}

\* C23: list, info, docs and validate leave the manifest file as it is, and
\* docs writes the index page and one page per record and returns the number
\* of records as generated
C23_ReadOnlyOperations ==
  [][result'.cmd \in ReadOnlyCommands =>
       /\ disk' = disk
       /\ writes' = 0
       /\ (result'.cmd = "docs" /\ result'.status = "ok") =>
            /\ result'.value.generated = Cardinality(DOMAIN ComponentsOf(disk))
            /\ docs' \ docs \subseteq {"index"} \cup DOMAIN ComponentsOf(disk)
            /\ {"index"} \cup DOMAIN ComponentsOf(disk) \subseteq docs']_vars

C23_Witness ==
  /\ result.cmd = "docs"
  /\ result.status = "ok"
  /\ result.value.generated = 2
  /\ docs = {"index", "x-card", "buy-flow"}
  /\ DOMAIN ComponentsOf(disk) = {"x-card", "buy-flow"}

\* the records whose file is not in the tree
FileMissing(m, fs) == {n \in DOMAIN m.components : ~Present(fs, m.components[n].path)}

\* the record is valid as soon as its file exists
WellFormed(m, n) ==
  /\ HasHyphen(n)
  /\ m.components[n].layer = LayerOfPath(m.components[n].path)

\* C15: validateRegistry partitions the records into valid ones and ones with
\* issues; when all records are well-formed and the file of exactly one of
\* them is gone, it reports 'File not found: <path>' for that record alone
\* and counts every other record as valid
C15_ValidatePartitions ==
  ValidateDone =>
    LET m == manifest
        n == Cardinality(DOMAIN m.components)
    IN /\ result.value.valid + Cardinality(result.value.issues) = n
       /\ \A gone \in DOMAIN m.components :
            (FileMissing(m, files) = {gone} /\ \A x \in DOMAIN m.components : WellFormed(m, x))
              => /\ result.value.valid = n - 1
                 /\ result.value.issues =
                      {[component |-> gone,
                        issues |-> {[issue |-> "File not found",
                                     path |-> m.components[gone].path]}]}

C15_Witness ==
  /\ ValidateDone
  /\ Cardinality(DOMAIN manifest.components) = 2
  /\ Cardinality(FileMissing(manifest, files)) = 1
  /\ result.value.valid = 1

(***************************************************************************)
(* Properties of the architecture validator                                *)
(***************************************************************************)
ArchDone == archPc = "done"

Reported(type, file) ==
  \E i \in DOMAIN violations : violations[i].type = type /\ violations[i].file = file

\* C10: the validator reports a LAYER_VIOLATION for every file under pages/
\* that contains '../workflows/', and the run fails
C10_PageLayerViolation ==
  ArchDone =>
    \A p \in ArchPaths :
      (archTree[p].present /\ p.dir = "pages" /\ Contains(archTree[p].text, "../workflows/"))
        => (Reported("LAYER_VIOLATION", p) /\ ~archPassed)

CountReported(type, file) ==
  Cardinality({i \in DOMAIN violations :
                 violations[i].type = type /\ violations[i].file = file})

ReferencesUp(text) == Contains(text, "../pages/") \/ Contains(text, "../workflows/")

\* C11: the validator reports exactly one LAYER_VIOLATION for each .js file
\* under components/ that references '../pages/' or '../workflows/', and none
\* for a file under workflows/, whatever it references
C11_ComponentLayerViolations ==
  ArchDone =>
    \A p \in ArchPaths :
      /\ (archTree[p].present /\ p.dir = "components" /\ p.ext = "js"
             /\ ReferencesUp(archTree[p].text))
           => CountReported("LAYER_VIOLATION", p) = 1
      /\ p.dir = "workflows" => CountReported("LAYER_VIOLATION", p) = 0

\* C12: when a .js file under components/ contains an inline style attribute,
\* the run records INLINE_CSS_DETECTED for that file and validate() returns false
C12_InlineStyleDetected ==
  ArchDone =>
    \A p \in ArchPaths :
      (archTree[p].present /\ p.dir = "components" /\ p.ext = "js"
         /\ InlineMatch(archTree[p].text, "style attribute"))
        => (Reported("INLINE_CSS_DETECTED", p) /\ ~archPassed)

\* C22: with styles/main.css present, every file other than a stylesheet that
\* holds a reserved declaration gets a CSS_DUPLICATION violation, whatever
\* the files checked before it held
C22_DuplicationReported ==
  (ArchDone /\ mainCss) =>
    \A p \in ArchPaths :
      (archTree[p].present /\ p.ext /= "css"
         /\ \E k \in DOMAIN ForbiddenPatterns :
              PatternHits(archTree[p].text, ForbiddenPatterns[k]) /= {})
        => Reported("CSS_DUPLICATION", p)

TypesReported == {violations[i].type : i \in DOMAIN violations}

\* C19: without styles/main.css a run records exactly one MISSING_MAIN_CSS and
\* no INLINE_CSS_DETECTED or CSS_DUPLICATION, still records what the markup
\* check and the layer check find, and returns false
C19_MissingMainCss ==
  (ArchDone /\ ~mainCss) =>
    /\ CountReported("MISSING_MAIN_CSS", "styles/main.css") = 1
    /\ TypesReported \cap {"INLINE_CSS_DETECTED", "CSS_DUPLICATION"} = {}
    /\ Tail(violations) =
         validateWebComponentUsage(archTree) \o validateLayerDependencies(archTree)
    /\ Head(violations).type = "MISSING_MAIN_CSS"
    /\ ~archPassed

C19_Witness ==
  /\ ArchDone
  /\ ~mainCss
  /\ archTree[ComponentNested] = [present |-> TRUE, text |-> "inlineRefPages"]
  /\ Reported("LAYER_VIOLATION", ComponentNested)

(***************************************************************************)
(* Properties of the token validator                                       *)
(***************************************************************************)
TokensDone == tokPc = "done"

Declared == IF tokTree[MainCss].present THEN tokTree[MainCss].declares ELSE {}

\* how often file p refers to exactly var(--name)
Occurrences(p, name) ==
  Cardinality({i \in DOMAIN tokTree[p].refs : tokTree[p].refs[i] = name})

ReferredTo(name) == \E p \in TokenPaths : Occurrences(p, name) > 0

UnusedWarnings ==
  SelectSeq(tokViolations, LAMBDA v : v.type = "unused-tokens")

\* C13: a run records at most one unused-tokens warning, and a declared token
\* is in its details exactly when no scanned file refers to var(--name) with
\* that exact name: a reference to a longer name that starts with it is no use
C13_UnusedExactlyUnreferenced ==
  TokensDone =>
    /\ Len(UnusedWarnings) <= 1
    /\ \A n \in Declared :
         /\ (\E i \in DOMAIN UnusedWarnings : n \in UnusedWarnings[i].details)
              <=> ~ReferredTo(n)
         /\ ReferredTo(n) => tokens[n].usageCount >= 1

UnknownReported(p, name) ==
  Cardinality({i \in DOMAIN tokViolations :
                 /\ tokViolations[i].type = "unknown-token"
                 /\ tokViolations[i].severity = "error"
                 /\ tokViolations[i].file = p
                 /\ tokViolations[i].token = name})

\* C14: every var(--x) reference of a scanned file to a name the main
\* stylesheet does not declare is recorded as one unknown-token error naming
\* --x and the file; a reference to a declared token is never recorded
C14_UnknownTokenPerReference ==
  TokensDone =>
    /\ \A p \in TokenPaths, name \in RefNames :
         UnknownReported(p, name) =
           IF name \in Declared THEN 0 ELSE Occurrences(p, name)
    /\ \A i \in DOMAIN tokViolations :
         tokViolations[i].type = "unknown-token" => tokViolations[i].severity = "error"

C14_Witness ==
  /\ TokensDone
  /\ Declared = {"--card-bg-dark", "--gap"}
  /\ tokTree[CardCss].present
  /\ tokTree[CardCss].refs = <<"--totally-unknown", "--totally-unknown">>
  /\ tokTree[HomeHtml].refs = <<"--card-bg-dark", "--gap">>
  /\ UnknownReported(CardCss, "--totally-unknown") = 2

Severities == {tokViolations[i].severity : i \in DOMAIN tokViolations}

SecondRunDone == TokensDone /\ tokResult.previous.cmd = "tokens"

\* C25: a second validateTokens() on the same instance over the unchanged
\* tree returns the violation count and the issues of the first, and the
\* usage counts of the declared tokens start from zero in each run
C25_RunsAreIndependent ==
  /\ SecondRunDone =>
       /\ tokResult.results.violations = tokResult.previous.results.violations
       /\ tokResult.results.issues = tokResult.previous.results.issues
  /\ tokPc = "usage" => \A n \in Declared : tokens[n].usageCount = 0

(***************************************************************************)
(* Properties of the commands' exit codes                                  *)
(***************************************************************************)
\* what the process of a registry subcommand exits with, cli.js lines
\* 291-340: the action awaits registryCommand and does nothing else, so the
\* code is 0 unless the promise rejects
RegistryExitCode(r) == IF r.status = "error" THEN 1 ELSE 0

\* the command detected a violation or threw
Finding(r) ==
  \/ r.status = "error"
  \/ r.cmd = "validate" /\ r.value.issues /= {}

\* C16: a registry subcommand exits with 0 when it succeeds without a
\* finding and with a nonzero code when it threw or detected a violation;
\* `registry validate` exits nonzero when its issues list is not empty
C16_ExitCodeReflectsFindings ==
  result.cmd /= "none" => (RegistryExitCode(result) /= 0 <=> Finding(result))

SuiteDone == suitePc = "exited"

StageFailed(s) ==
  CASE s.stage = "architecture" -> s.outcome.code /= 0
    [] s.stage = "registry"     -> s.outcome.threw \/ s.outcome.issues > 0
    [] s.stage = "tokens"       -> s.outcome.threw \/ s.outcome.violations > 0
    [] s.stage = "visual"       -> s.outcome.threw \/ s.outcome.failed > 0

\* C17: validate-all runs architecture, registry, tokens and visual tests in
\* this order, each of them whatever the earlier ones came to, then prints
\* the summary and exits nonzero exactly when a stage failed
C17_AllStagesThenSummary ==
  SuiteDone =>
    /\ [i \in DOMAIN stagesRun |-> stagesRun[i].stage]
         = <<"architecture", "registry", "tokens", "visual">>
    /\ suiteEnd.summary
    /\ suiteEnd.code /= 0 <=> \E i \in DOMAIN stagesRun : StageFailed(stagesRun[i])

(***************************************************************************)
(* Properties of the web component lifecycle                               *)
(***************************************************************************)
\* where a callback or method appears in the call log
Positions(fn) == {i \in DOMAIN calls : calls[i].fn = fn}

\* the callback in whose course entry i of the log was made
CallbackOf(i) ==
  CHOOSE j \in 1..i :
    /\ calls[j].fn \in Callbacks
    /\ \A k \in (j + 1)..i : calls[k].fn \notin Callbacks

\* initialize() completes at most once, and in the first connectedCallback
InitializedOnce ==
  /\ Cardinality({i \in Positions("initialize") : calls[i].completed}) <= 1
  /\ \A i \in Positions("initialize") :
       /\ calls[CallbackOf(i)].fn = "connectedCallback"
       /\ \A j \in Positions("connectedCallback") : j >= CallbackOf(i)

\* every render() comes after a completed initialize()
RenderAfterInitialize ==
  \A i \in Positions("render") :
    \E j \in Positions("initialize") : j < i /\ calls[j].completed

\* every disconnectedCallback invokes cleanup()
DisconnectCleansUp ==
  \A i \in Positions("disconnectedCallback") :
    i < Len(calls) /\ calls[i + 1].fn = "cleanup"

\* a step that is an attribute change on an element never connected so far
AttributeBeforeConnect ==
  /\ Len(calls') > Len(calls)
  /\ calls'[Len(calls) + 1].fn = "attributeChangedCallback"
  /\ Positions("connectedCallback") = {}

\* such a step stores the new value and invokes no render()
OnlyRecordsProp ==
  /\ \E n \in PropNames, v \in PropValues :
       element' = [element EXCEPT !.props[n] = v]
  /\ \A i \in (Len(calls) + 1)..Len(calls') : calls'[i].fn # "render"

\* C28: for any sequence of connectedCallback, disconnectedCallback and
\* attributeChangedCallback calls on one element, initialize() completes at
\* most once, on the first connect; render() is never invoked before
\* initialize() has completed; an attribute change before the first connect
\* only records the prop, without rendering; every disconnect invokes cleanup()
C28_LifecycleOrder ==
  /\ [](InitializedOnce /\ RenderAfterInitialize /\ DisconnectCleansUp)
  /\ [][AttributeBeforeConnect => OnlyRecordsProp]_vars

\* an attribute set before the first connect, then connect, disconnect and
\* connect again: one initialize(), two render(), one cleanup()
C28_Witness ==
  /\ Len(calls) > 0
  /\ calls[1].fn = "attributeChangedCallback"
  /\ Cardinality(Positions("connectedCallback")) = 2
  /\ Cardinality(Positions("disconnectedCallback")) = 1
  /\ Cardinality(Positions("initialize")) = 1
  /\ Cardinality(Positions("render")) = 2
  /\ Cardinality(Positions("cleanup")) = 1
  /\ element.initialized
  /\ element.props["title"] # Undefined

(***************************************************************************)
(* Properties of setup-prompts                                             *)
(***************************************************************************)
\* the files that are to keep the user's configuration
Keepers == {"CLAUDE.md", "CLAUDE.md.backup", "CLAUDE-superdesign.md"}

\* what CLAUDE.md held before the first invocation is still in one of them
OriginalKept ==
  (setups # <<>> /\ original # NoPrompt) =>
    \E f \in Keepers : promptFiles[f] = original

\* an invocation with mode 1, with an invalid mode or without a mode
KeepsSetup ==
  /\ Len(setups') = Len(setups) + 1
  /\ setups'[Len(setups')] \in {"none", "1", "4"}

\* C29: after any sequence of `setup-prompts` invocations with modes 1, 2 or
\* 3, repeated or not, the content CLAUDE.md had before the first invocation
\* is still in CLAUDE.md, CLAUDE.md.backup or CLAUDE-superdesign.md; mode 1
\* and an invalid mode modify no file
C29_OriginalNeverLost ==
  /\ []OriginalKept
  /\ [][KeepsSetup => promptFiles' = promptFiles]_vars

(***************************************************************************)
(* Properties of the visual comparison                                     *)
(***************************************************************************)
\* a step in which compareSnapshot ran on the next test case
CompareStep == visPc # <<>> /\ visPc' = Tail(visPc)

\* what the claim says of that call
ComparedAsSpecified ==
  LET name == Head(visPc)
      before == baselines[name]
      returned == visLast'.returned
  IN /\ (~visUpdate /\ before.exists) =>
          /\ baselines'[name] = before
          /\ (returned = "passed") <=> (visLast'.shot = before.bytes)
          /\ ~temps'[name].exists
     /\ baselines'[name] # before =>
          /\ visUpdate \/ ~before.exists
          /\ returned = "updated"
     /\ returned = "updated" =>
          /\ visUpdate \/ ~before.exists
          /\ visResults' = [visResults EXCEPT !.updated = @ + 1]
     /\ \A other \in SnapshotNames \ {name} : baselines'[other] = baselines[other]

====
